---- MODULE Spec2Model ----
(***************************************************************************)
(* The OTPInput widget of input-otp: one hidden <input> whose text is the  *)
(* value behind a ghost character, the mirrored selection used to draw the *)
(* slots, the key, select, change, copy and focus handlers, the deferred   *)
(* selection updates and the completion effect.                            *)
(*                                                                         *)
(* A string is a sequence of one-character strings.  A nullable number is  *)
(* <<>> (null / undefined) or <<n>>.                                       *)
(***************************************************************************)
EXTENDS Integers, Sequences, FiniteSets, TLC

\* ------------------------------------------------------------- bounds
\* The largest maxLength prop the caller passes.
MaxMaxLength == 2
\* The longest text a single paste inserts.
MaxPaste == 2
\* The most deferred callbacks (timers of syncTimeouts) outstanding at once.
MaxPending == 1
\* The most times useImperativeHandle installs its select override.
MaxInstalls == 3

\* ---------------------------------------------------------- alphabet
GHOST_CHARACTER == "@"
SPACE == " "
Digits == {"1"}
Chars == Digits \cup {GHOST_CHARACTER, SPACE}

None == <<>>
Some(x) == <<x>>

Min(a, b) == IF a < b THEN a ELSE b
Max(a, b) == IF a > b THEN a ELSE b

\* All strings over Chars of length 0..n.
StringsUpTo(n) == UNION {[1..k -> Chars] : k \in 0..n}

\* s.includes(c)
Includes(s, c) == \E i \in 1..Len(s) : s[i] = c

\* s.replace(c, ''): a string pattern replaces its FIRST occurrence only.
ReplaceFirst(s, c) ==
  IF Includes(s, c)
  THEN LET i == CHOOSE k \in 1..Len(s) : s[k] = c /\ \A j \in 1..(k - 1) : s[j] # c
       IN  SubSeq(s, 1, i - 1) \o SubSeq(s, i + 1, Len(s))
  ELSE s

\* s with every occurrence of c removed (what a global replace would do).
RECURSIVE RemoveAll(_, _)
RemoveAll(s, c) ==
  IF s = <<>> THEN <<>>
  ELSE IF Head(s) = c THEN RemoveAll(Tail(s), c)
  ELSE <<Head(s)>> \o RemoveAll(Tail(s), c)

includeGhostCharacter(s) ==
  IF Includes(s, GHOST_CHARACTER) THEN s ELSE <<GHOST_CHARACTER>> \o s

removeGhostCharacter(s) == ReplaceFirst(s, GHOST_CHARACTER)

\* ----------------------------------------------------------- pattern
\* "digits": REGEXP_ONLY_DIGITS, the default; "none": a falsy pattern, regexp = null.
Patterns == {"digits", "none"}

\* REGEXP_ONLY_DIGITS.test(s): one or more digits and nothing else.
OnlyDigitsTest(s) == Len(s) > 0 /\ \A i \in 1..Len(s) : s[i] \in Digits

\* regexp && !regexp.test(s) is false, i.e. the pattern does not reject s.
RegexpAccepts(p, s) == p = "none" \/ OnlyDigitsTest(s)

\* ------------------------------------------------------------- state
VARIABLES
  mounted,               \* the component has rendered once
  value,                 \* value = uncheckedValue ?? internalValue
  prevRef,               \* usePrevious: ref.current, None while undefined
  maxLength,             \* prop
  pattern,               \* prop
  allowNavigation,       \* prop
  onComplete,            \* prop: "none" (undefined) or the callback's identity
  inputValue,            \* inputRef.current.value, the text of the <input>
  selectionStart,        \* inputRef.current.selectionStart
  selectionEnd,          \* inputRef.current.selectionEnd
  mirrorSelectionStart,  \* state, None = null
  mirrorSelectionEnd,    \* state, None = null
  isFocused,             \* state
  isHoveringContainer,   \* state
  selectChain,           \* the select overrides installed on the element, oldest
                         \* first: the allowNavigation each closure captured
  pending,               \* the callbacks deferred by syncTimeouts, oldest first
  completed,             \* the onComplete calls of the last step
  changed,               \* the onChange calls of the last step
  copied,                \* the clipboard.writeText calls of the last step
  prevented,             \* the last event had preventDefault() called
  changeText,            \* e.currentTarget.value of the last step's change event
  keyPress,              \* the last key-down, while nothing but its deferred
                         \* callbacks has run since
  lastOp                 \* the last operation

vars == <<mounted, value, prevRef, maxLength, pattern, allowNavigation, onComplete,
          inputValue, selectionStart, selectionEnd, mirrorSelectionStart,
          mirrorSelectionEnd, isFocused, isHoveringContainer, selectChain, pending,
          completed, changed, copied, prevented, changeText, keyPress, lastOp>>

OnCompletes == {"none", "f"}

\* A deferred _selectListener with the value and maxLength its closure captured.
SelectTask(v, ml) == [kind |-> "select", value |-> v, maxLength |-> ml]
\* The callback _selectListener defers: it reads only inputRef.current.
MirrorTask == [kind |-> "mirror", value |-> <<>>, maxLength |-> 0]

\* syncTimeouts(cb): cb runs later, after the tasks already deferred.
syncTimeouts(q, cb) == Append(q, cb)

\* ----------------------------------------------------- the <input> element
\* el.setSelectionRange(start, end): offsets past the end point at the end (a
\* negative one converts to a huge unsigned long), and end <= start collapses
\* the selection at end.
SetSelectionRange(text, start, end) ==
  LET n == Len(text)
      s == IF start < 0 \/ start > n THEN n ELSE start
      e == IF end < 0 \/ end > n THEN n ELSE end
  IN  IF e <= s THEN <<e, e>> ELSE <<s, e>>

\* The text after the user replaces the selection [s, e) of text by ins.
Splice(text, s, e, ins) == SubSeq(text, 1, s) \o ins \o SubSeq(text, e + 1, Len(text))

\* maxLength={maxLength + 1}: how many characters the user may still insert.
Room(text, s, e, ml) == (ml + 1) - (Len(text) - (e - s))

\* ------------------------------------------------------------ rendering
\* The completion effect of one render: previousValue is ref.current as read
\* during the render, the effect runs when one of its dependencies changed.
\* (CompletionEffectWhileFull: the effect without its previousValue.length test.)
CompletionEffectWhileFull(prev, v, ml, oc) ==
  IF /\ (ml # maxLength \/ oc # onComplete \/ v # value \/ ~mounted)
     /\ prev # None
     /\ v # prev[1]
     /\ Len(v) = ml
     /\ oc # "none"
  THEN <<[f |-> oc, arg |-> v]>>
  ELSE <<>>

CompletionEffect(prev, v, ml, oc) ==
  IF /\ (ml # maxLength \/ oc # onComplete \/ v # value \/ ~mounted)
     /\ prev # None
     /\ v # prev[1]
     /\ Len(prev[1]) < ml
     /\ Len(v) = ml
     /\ oc # "none"
  THEN <<[f |-> oc, arg |-> v]>>
  ELSE <<>>

\* useImperativeHandle(ref, ..., [allowNavigation]): the factory runs again when
\* allowNavigation changed, wrapping the select the element has by then.
InstallSelect(chain, an) == IF an # allowNavigation THEN Append(chain, an) ELSE chain

\* One render and commit with the given value and props.  domText and
\* <<s, e>> are the text and selection of the <input> when React commits: a
\* value attribute that differs from the text is written to the element, which
\* puts the caret at the end.
Render(v, ml, oc, an, domText, s, e) ==
  LET shown == includeGhostCharacter(v)
      sel == IF shown # domText THEN <<Len(shown), Len(shown)>> ELSE <<s, e>>
  IN  /\ value' = v
      /\ maxLength' = ml
      /\ onComplete' = oc
      /\ allowNavigation' = an
      /\ prevRef' = Some(v)
      /\ completed' = CompletionEffect(prevRef, v, ml, oc)
      /\ selectChain' = InstallSelect(selectChain, an)
      /\ inputValue' = shown
      /\ selectionStart' = sel[1]
      /\ selectionEnd' = sel[2]

\* A render in which neither the value nor a prop changed.
Rerender(s, e) == Render(value, maxLength, onComplete, allowNavigation, inputValue, s, e)

\* ---------------------------------------------------------------- slots
\* renderedChildren: the slots handed to render().
SlotIndexes == 0..(maxLength - 1)

isActive(slotIdx) ==
  /\ isFocused
  /\ mirrorSelectionStart # None
  /\ mirrorSelectionEnd # None
  /\ \/ (mirrorSelectionStart = mirrorSelectionEnd /\ slotIdx = mirrorSelectionStart[1])
     \/ (slotIdx >= mirrorSelectionStart[1] /\ slotIdx < mirrorSelectionEnd[1])

\* value[slotIdx] !== undefined ? value[slotIdx] : null
char(slotIdx) == IF slotIdx < Len(value) THEN Some(value[slotIdx + 1]) ELSE None

hasFakeCaret(slotIdx) == isActive(slotIdx) /\ char(slotIdx) = None

ActiveSlots == {i \in SlotIndexes : isActive(i)}

\* ----------------------------------------------------------------- init
\* Before the first render: the props the caller passes and the initial value
\* (props.defaultValue or the controlled value), one the pattern allows.
Init ==
  /\ mounted = FALSE
  /\ maxLength \in 1..MaxMaxLength
  /\ pattern \in Patterns
  /\ allowNavigation \in BOOLEAN
  /\ onComplete \in OnCompletes
  /\ value \in {v \in StringsUpTo(maxLength) : v = <<>> \/ RegexpAccepts(pattern, v)}
  /\ prevRef = None
  /\ inputValue = <<>>
  /\ selectionStart = 0
  /\ selectionEnd = 0
  /\ mirrorSelectionStart = None
  /\ mirrorSelectionEnd = None
  /\ isFocused = FALSE
  /\ isHoveringContainer = FALSE
  /\ selectChain = <<>>
  /\ pending = <<>>
  /\ completed = <<>>
  /\ changed = <<>>
  /\ copied = <<>>
  /\ prevented = FALSE
  /\ changeText = None
  /\ keyPress = None
  /\ lastOp = "init"

\* The first render: the element gets its text, the effects run with
\* previousValue undefined, and the select override is installed.
Mount ==
  /\ ~mounted
  /\ mounted' = TRUE
  /\ value' = value
  /\ maxLength' = maxLength
  /\ onComplete' = onComplete
  /\ allowNavigation' = allowNavigation
  /\ prevRef' = Some(value)
  /\ completed' = CompletionEffect(prevRef, value, maxLength, onComplete)
  /\ selectChain' = <<allowNavigation>>
  /\ inputValue' = includeGhostCharacter(value)
  /\ selectionStart' = Len(includeGhostCharacter(value))
  /\ selectionEnd' = Len(includeGhostCharacter(value))
  /\ changed' = <<>>
  /\ copied' = <<>>
  /\ prevented' = FALSE
  /\ lastOp' = "mount"
  /\ changeText' = None
  /\ keyPress' = None
  /\ UNCHANGED <<pattern, mirrorSelectionStart, mirrorSelectionEnd, isFocused,
                 isHoveringContainer, pending>>

\* onMouseOver / onMouseLeave of the container.
MouseOver ==
  /\ mounted
  /\ ~isHoveringContainer
  /\ isHoveringContainer' = TRUE
  /\ Rerender(selectionStart, selectionEnd)
  /\ changed' = <<>>
  /\ copied' = <<>>
  /\ prevented' = FALSE
  /\ lastOp' = "mouseover"
  /\ changeText' = None
  /\ keyPress' = None
  /\ UNCHANGED <<mounted, pattern, mirrorSelectionStart, mirrorSelectionEnd, isFocused,
                 pending>>

MouseLeave ==
  /\ mounted
  /\ isHoveringContainer
  /\ isHoveringContainer' = FALSE
  /\ Rerender(selectionStart, selectionEnd)
  /\ changed' = <<>>
  /\ copied' = <<>>
  /\ prevented' = FALSE
  /\ lastOp' = "mouseleave"
  /\ changeText' = None
  /\ keyPress' = None
  /\ UNCHANGED <<mounted, pattern, mirrorSelectionStart, mirrorSelectionEnd, isFocused,
                 pending>>

\* ------------------------------------------------------ select listener
\* The synchronous part of _selectListener, run with the value and maxLength
\* its closure captured on the element's selection <<s, e>>: the selection it
\* leaves.
SelectListenerSel(v, ml, text, s, e) ==
  LET isSingleCaret == s = e
      isInsertMode == s = Len(v) /\ Len(v) < ml
      caretPos == s
  IN  IF Len(v) # 0 /\ isSingleCaret /\ ~isInsertMode
      THEN IF caretPos = 0 THEN SetSelectionRange(text, 0, 1)
           ELSE IF caretPos = Len(v) THEN SetSelectionRange(text, Len(v) - 1, Len(v))
           ELSE SetSelectionRange(text, caretPos, caretPos + 1)
      ELSE <<s, e>>

fixSelection(selection) ==
  IF selection = None THEN None
  ELSE IF selection[1] > 1 THEN Some(selection[1] - 1)
  ELSE Some(selection[1] - 1)

\* onSelect: the user (mouse, Shift+arrows, the default action of a key) or a
\* setSelectionRange has put the selection at <<s, e>>; _selectListener runs.
Select(s, e) ==
  /\ mounted /\ isFocused
  /\ Len(pending) < MaxPending
  /\ LET sel == SelectListenerSel(value, maxLength, inputValue, s, e)
     IN  Rerender(sel[1], sel[2])
  /\ pending' = syncTimeouts(pending, MirrorTask)
  /\ changed' = <<>>
  /\ copied' = <<>>
  /\ prevented' = FALSE
  /\ lastOp' = "select"
  /\ changeText' = None
  /\ keyPress' = None
  /\ UNCHANGED <<mounted, pattern, mirrorSelectionStart, mirrorSelectionEnd, isFocused,
                 isHoveringContainer>>

\* The oldest deferred callback runs.
RunDeferred ==
  /\ mounted
  /\ pending # <<>>
  /\ LET task == Head(pending)
     IN  IF task.kind = "select"
         THEN LET sel == SelectListenerSel(task.value, task.maxLength, inputValue,
                                           selectionStart, selectionEnd)
              IN  /\ Rerender(sel[1], sel[2])
                  /\ pending' = syncTimeouts(Tail(pending), MirrorTask)
                  /\ UNCHANGED <<mirrorSelectionStart, mirrorSelectionEnd>>
                  /\ lastOp' = "deferredSelect"
                  /\ changeText' = None
                  /\ UNCHANGED keyPress
         ELSE /\ mirrorSelectionStart' = fixSelection(Some(selectionStart))
              /\ mirrorSelectionEnd' = fixSelection(Some(selectionEnd))
              /\ Rerender(selectionStart, selectionEnd)
              /\ pending' = Tail(pending)
              /\ lastOp' = "deferredMirror"
              /\ changeText' = None
              /\ UNCHANGED keyPress
  /\ changed' = <<>>
  /\ copied' = <<>>
  /\ prevented' = FALSE
  /\ UNCHANGED <<mounted, pattern, isFocused, isHoveringContainer>>

\* ----------------------------------------------------------- focus, blur
\* onFocus
Focus ==
  /\ mounted /\ ~isFocused
  /\ LET start == Min(Len(inputValue) - 1, maxLength - 1)
         end == Len(inputValue)
         sel == SetSelectionRange(inputValue, start, end)
     IN  /\ Rerender(sel[1], sel[2])
         /\ mirrorSelectionStart' = Some(start)
         /\ mirrorSelectionEnd' = Some(end)
  /\ isFocused' = TRUE
  /\ changed' = <<>>
  /\ copied' = <<>>
  /\ prevented' = FALSE
  /\ lastOp' = "focus"
  /\ changeText' = None
  /\ keyPress' = None
  /\ UNCHANGED <<mounted, pattern, isHoveringContainer, pending>>

\* onBlur
Blur ==
  /\ mounted /\ isFocused
  /\ isFocused' = FALSE
  /\ Rerender(selectionStart, selectionEnd)
  /\ changed' = <<>>
  /\ copied' = <<>>
  /\ prevented' = FALSE
  /\ lastOp' = "blur"
  /\ changeText' = None
  /\ keyPress' = None
  /\ UNCHANGED <<mounted, pattern, mirrorSelectionStart, mirrorSelectionEnd,
                 isHoveringContainer, pending>>

\* --------------------------------------------------------- change events
\* What _changeListener passes to the pattern test and to onChange.
Sanitize(text) == removeGhostCharacter(ReplaceFirst(text, SPACE))

\* _changeListener accepts the sanitized text w.
ChangeAccepted(w) == ~(Len(w) > 0 /\ ~RegexpAccepts(pattern, w))

\* An input event that left the element with domText and the caret at caret:
\* onInput defers _selectListener (the closure of the render before the
\* change), then onChange runs _changeListener, if the text changed at all.
InputEvent(domText, caret, op) ==
  LET w == Sanitize(domText)
      fires == domText # inputValue
      accepted == fires /\ ChangeAccepted(w)
  IN  /\ pending' = syncTimeouts(pending, SelectTask(value, maxLength))
      /\ changed' = IF accepted THEN <<w>> ELSE <<>>
      /\ prevented' = (fires /\ ~accepted)
      /\ Render(IF accepted THEN w ELSE value, maxLength, onComplete, allowNavigation,
                domText, caret, caret)
      /\ copied' = <<>>
      /\ lastOp' = op
      /\ changeText' = IF fires THEN Some(domText) ELSE None
      /\ keyPress' = None
      /\ UNCHANGED <<mounted, pattern, mirrorSelectionStart, mirrorSelectionEnd,
                     isFocused, isHoveringContainer>>

\* The user types a character or pastes clip over the selection; the element
\* keeps only what its maxLength attribute leaves room for.
Insert(clip) ==
  /\ mounted /\ isFocused
  /\ Len(pending) < MaxPending
  /\ LET room == Room(inputValue, selectionStart, selectionEnd, maxLength)
         ins == SubSeq(clip, 1, Min(Len(clip), room))
     IN  /\ Len(ins) > 0
         /\ InputEvent(Splice(inputValue, selectionStart, selectionEnd, ins),
                       selectionStart + Len(ins), "insert")

\* Backspace: the selection is deleted, or the character before the caret.
Backspace ==
  /\ mounted /\ isFocused
  /\ Len(pending) < MaxPending
  /\ selectionEnd > 0
  /\ LET from == IF selectionStart = selectionEnd THEN selectionStart - 1
                 ELSE selectionStart
     IN  InputEvent(Splice(inputValue, from, selectionEnd, <<>>), from, "backspace")

\* ------------------------------------------------------------- keys
NavKeys == {"ArrowLeft", "ArrowRight", "ArrowUp", "ArrowDown", "Home", "End"}
Keys == NavKeys \cup {"Other"}
\* e.shiftKey, e.altKey, e.metaKey, e.ctrlKey: the set of the modifiers held.
Modifiers == SUBSET {"shift", "alt", "meta", "ctrl"}

\* SelectionType of the selection <<s, e>>; "error" where the code throws.
\* (SelectionTypeOfNoChar: the classification without its one-character case.)
SelectionTypeOfNoChar(s, e) ==
  IF s = e THEN "CARET"
  ELSE IF e - s > 1 THEN "MULTI"
  ELSE "error"

SelectionTypeOf(s, e) ==
  IF s = e THEN "CARET"
  ELSE IF e - s = 1 THEN "CHAR"
  ELSE IF e - s > 1 THEN "MULTI"
  ELSE "error"

\* The range the plain ArrowLeft branch passes to setSelectionRange.
\* (plainLeftRangeUnclamped: the range without Math.max.)
plainLeftRangeUnclamped(s, e) == <<s - 1, e - 1>>

plainLeftRange(s, e) == <<Max(s - 1, 0), Max(e - 1, 1)>>

\* _keyDownListener: whether it calls preventDefault() and the selection it
\* leaves.
\* (KeyDownHandlerNavigationOn: the listener without its allowNavigation test.)
KeyDownHandlerNavigationOn(key, mods, s, e) ==
  LET selectionType == SelectionTypeOf(s, e)
      plainLeft == /\ key = "ArrowLeft"
                   /\ selectionType = "CHAR"
                   /\ mods = {}
      altJump == /\ "alt" \in mods
                 /\ "shift" \notin mods
                 /\ key \in {"ArrowLeft", "ArrowRight"}
  IN  IF key \notin NavKeys THEN [prevented |-> FALSE, sel |-> <<s, e>>]
      ELSE IF plainLeft
      THEN [prevented |-> TRUE,
            sel |-> SetSelectionRange(inputValue, plainLeftRange(s, e)[1],
                                      plainLeftRange(s, e)[2])]
      ELSE IF altJump /\ key = "ArrowLeft"
      THEN [prevented |-> TRUE,
            sel |-> SetSelectionRange(inputValue, 0, Min(1, Len(value)))]
      ELSE IF altJump
      THEN [prevented |-> TRUE,
            sel |-> SetSelectionRange(inputValue, Max(0, Len(value) - 1), Len(value))]
      ELSE [prevented |-> FALSE, sel |-> <<s, e>>]

KeyDownHandler(key, mods, s, e) ==
  LET selectionType == SelectionTypeOf(s, e)
      plainLeft == /\ key = "ArrowLeft"
                   /\ selectionType = "CHAR"
                   /\ mods = {}
      altJump == /\ "alt" \in mods
                 /\ "shift" \notin mods
                 /\ key \in {"ArrowLeft", "ArrowRight"}
  IN  IF key \notin NavKeys THEN [prevented |-> FALSE, sel |-> <<s, e>>]
      ELSE IF ~allowNavigation THEN [prevented |-> TRUE, sel |-> <<s, e>>]
      ELSE IF plainLeft
      THEN [prevented |-> TRUE,
            sel |-> SetSelectionRange(inputValue, plainLeftRange(s, e)[1],
                                      plainLeftRange(s, e)[2])]
      ELSE IF altJump /\ key = "ArrowLeft"
      THEN [prevented |-> TRUE,
            sel |-> SetSelectionRange(inputValue, 0, Min(1, Len(value)))]
      ELSE IF altJump
      THEN [prevented |-> TRUE,
            sel |-> SetSelectionRange(inputValue, Max(0, Len(value) - 1), Len(value))]
      ELSE [prevented |-> FALSE, sel |-> <<s, e>>]

\* The default action of a key the handler let through, on a one-line <input>:
\* Home and ArrowUp go to the start, End and ArrowDown to the end, an arrow
\* collapses a selection or moves the caret by one (to the boundary with Alt,
\* Ctrl or Meta); with Shift the selection is extended instead.
DefaultAction(key, mods, text, s, e) ==
  LET n == Len(text)
      toStart == key \in {"Home", "ArrowUp"} \/ (key = "ArrowLeft" /\ mods \ {"shift"} # {})
      toEnd == key \in {"End", "ArrowDown"} \/ (key = "ArrowRight" /\ mods \ {"shift"} # {})
  IN  IF key \notin NavKeys THEN <<s, e>>
      ELSE IF "shift" \in mods
      THEN IF toStart THEN <<0, e>>
           ELSE IF toEnd THEN <<s, n>>
           ELSE IF key = "ArrowLeft" THEN <<Max(s - 1, 0), e>>
           ELSE <<s, Min(e + 1, n)>>
      ELSE IF toStart THEN <<0, 0>>
      ELSE IF toEnd THEN <<n, n>>
      ELSE IF key = "ArrowLeft" THEN (IF s < e THEN <<s, s>> ELSE <<Max(s - 1, 0), Max(s - 1, 0)>>)
      ELSE (IF s < e THEN <<e, e>> ELSE <<Min(e + 1, n), Min(e + 1, n)>>)

\* onKeyDown: _keyDownListener, then _selectListener is deferred, then the
\* browser performs the default action unless it was prevented.
KeyDown(key, mods) ==
  /\ mounted /\ isFocused
  /\ Len(pending) < MaxPending
  /\ SelectionTypeOf(selectionStart, selectionEnd) # "error"
  /\ LET h == KeyDownHandler(key, mods, selectionStart, selectionEnd)
         sel == IF h.prevented THEN h.sel
                ELSE DefaultAction(key, mods, inputValue, h.sel[1], h.sel[2])
     IN  /\ Rerender(sel[1], sel[2])
         /\ prevented' = h.prevented
  /\ pending' = syncTimeouts(pending, SelectTask(value, maxLength))
  /\ changed' = <<>>
  /\ copied' = <<>>
  /\ lastOp' = "keydown"
  /\ changeText' = None
  /\ keyPress' = Some([key |-> key, mods |-> mods])
  /\ UNCHANGED <<mounted, pattern, mirrorSelectionStart, mirrorSelectionEnd, isFocused,
                 isHoveringContainer>>

\* onKeyUp
KeyUp ==
  /\ mounted /\ isFocused
  /\ Len(pending) < MaxPending
  /\ Rerender(selectionStart, selectionEnd)
  /\ pending' = syncTimeouts(pending, SelectTask(value, maxLength))
  /\ changed' = <<>>
  /\ copied' = <<>>
  /\ prevented' = FALSE
  /\ lastOp' = "keyup"
  /\ changeText' = None
  /\ keyPress' = None
  /\ UNCHANGED <<mounted, pattern, mirrorSelectionStart, mirrorSelectionEnd, isFocused,
                 isHoveringContainer>>

\* ------------------------------------------------------------- copy
\* What the onCopy handler writes to the clipboard.
CopyText(v) == removeGhostCharacter(v)

\* onCopy, in a browser that has navigator.clipboard.
Copy ==
  /\ mounted /\ isFocused
  /\ Rerender(selectionStart, selectionEnd)
  /\ copied' = <<CopyText(value)>>
  /\ prevented' = TRUE
  /\ changed' = <<>>
  /\ lastOp' = "copy"
  /\ changeText' = None
  /\ keyPress' = None
  /\ UNCHANGED <<mounted, pattern, mirrorSelectionStart, mirrorSelectionEnd, isFocused,
                 isHoveringContainer, pending>>

\* -------------------------------------------------------- ref.select()
\* Whether calling the select installed k-th reaches the element's native
\* select: each override returns early unless the allowNavigation it captured
\* is true, and otherwise calls the select it wrapped (_select).
RECURSIVE ReachesNativeSelect(_, _)
ReachesNativeSelect(chain, k) ==
  IF k = 0 THEN TRUE ELSE chain[k] /\ ReachesNativeSelect(chain, k - 1)

\* The override in force passes its guard: if (!allowNavigation) return.
\* (SelectGuardFirstInstalled: the guard of an override that is never
\* installed again, as with an empty dependency list.)
SelectGuardFirstInstalled(chain) == chain[1]

SelectGuardPasses(chain) == chain[Len(chain)]

\* The forwarded ref's select() is called.
CallSelect ==
  /\ mounted
  /\ IF SelectGuardPasses(selectChain)
     THEN /\ IF ReachesNativeSelect(selectChain, Len(selectChain))
             THEN Rerender(0, Len(inputValue))
             ELSE Rerender(selectionStart, selectionEnd)
          /\ mirrorSelectionStart' = Some(0)
          /\ mirrorSelectionEnd' = Some(Len(inputValue))
     ELSE /\ Rerender(selectionStart, selectionEnd)
          /\ UNCHANGED <<mirrorSelectionStart, mirrorSelectionEnd>>
  /\ changed' = <<>>
  /\ copied' = <<>>
  /\ prevented' = FALSE
  /\ lastOp' = "callSelect"
  /\ changeText' = None
  /\ keyPress' = None
  /\ UNCHANGED <<mounted, pattern, isFocused, isHoveringContainer, pending>>

\* ------------------------------------------------ the caller's re-renders
\* The caller renders the component again with these props (value stands for
\* the controlled value, or for the internal one the caller leaves alone).
SetProps(v, ml, oc, an) ==
  /\ mounted
  /\ <<v, ml, oc, an>> # <<value, maxLength, onComplete, allowNavigation>>
  /\ an # allowNavigation => Len(selectChain) < MaxInstalls
  /\ Render(v, ml, oc, an, inputValue, selectionStart, selectionEnd)
  /\ changed' = <<>>
  /\ copied' = <<>>
  /\ prevented' = FALSE
  /\ changeText' = None
  /\ keyPress' = None
  /\ lastOp' = "setProps"
  /\ UNCHANGED <<mounted, pattern, mirrorSelectionStart, mirrorSelectionEnd, isFocused,
                 isHoveringContainer, pending>>

\* ------------------------------------------------------ specifications
\* The widget under the user's interactions and ref.select(), with the props
\* the caller first passed.
Next ==
  \/ Mount
  \/ Focus
  \/ Blur
  \/ \E s \in 0..Len(inputValue) : \E e \in s..Len(inputValue) : Select(s, e)
  \/ RunDeferred
  \/ \E clip \in StringsUpTo(MaxPaste) : Insert(clip)
  \/ Backspace
  \/ \E key \in Keys : \E mods \in Modifiers : KeyDown(key, mods)
  \/ KeyUp
  \/ Copy
  \/ CallSelect

Spec == Init /\ [][Next]_vars

\* The renders: every operation that sets state or changes the value, and the
\* caller rendering again with another value, maxLength or onComplete.
NextRender ==
  \/ Mount
  \/ MouseOver
  \/ MouseLeave
  \/ Focus
  \/ Blur
  \/ RunDeferred
  \/ \E clip \in StringsUpTo(MaxPaste) : Insert(clip)
  \/ Backspace
  \/ \E v \in StringsUpTo(MaxMaxLength) : \E ml \in 1..MaxMaxLength :
       \E oc \in OnCompletes : SetProps(v, ml, oc, allowNavigation)

\* REGEXP_ONLY_DIGITS and allowNavigation = true are the props' defaults.
InitRender == Init /\ allowNavigation = TRUE /\ pattern = "digits"

SpecRender == InitRender /\ [][NextRender]_vars

\* The forwarded ref: focus, selection and edits, ref.select() and the caller
\* rendering again with another allowNavigation.
NextRef ==
  \/ Mount
  \/ Focus
  \/ Blur
  \/ \E s \in 0..Len(inputValue) : \E e \in s..Len(inputValue) : Select(s, e)
  \/ RunDeferred
  \/ \E clip \in StringsUpTo(MaxPaste) : Insert(clip)
  \/ Backspace
  \/ CallSelect
  \/ SetProps(value, maxLength, onComplete, ~allowNavigation)

\* No onComplete is passed.
InitRef == Init /\ onComplete = "none"

SpecRef == InitRef /\ [][NextRef]_vars

\* ---------------------------------------------------------------- claims
AltLeft == [key |-> "ArrowLeft", mods |-> {"alt"}]
AltRight == [key |-> "ArrowRight", mods |-> {"alt"}]
PlainHome == [key |-> "Home", mods |-> {}]

\* C1: a render calls onComplete (when one is passed), once and with the new
\* value, exactly when the value of the previous render was shorter than the
\* render's maxLength and the new value has length maxLength; no other step
\* calls it, the first render included.
C1_OnCompleteOncePerTransition ==
  [][completed' = IF /\ mounted
                     /\ Len(value) < maxLength'
                     /\ Len(value') = maxLength'
                     /\ onComplete' # "none"
                  THEN <<[f |-> onComplete', arg |-> value']>>
                  ELSE <<>>]_vars

\* Typing the last character has just called onComplete with the full value.
C1_Witness ==
  /\ lastOp = "insert"
  /\ Len(value) = maxLength
  /\ completed = <<[f |-> "f", arg |-> value]>>

\* C2: the user's interactions never make the value longer than maxLength.
C2_ValueWithinMaxLength == mounted => Len(value) <= maxLength

\* C3: a change event calls onChange, with the field's text less ALL its spaces
\* and sentinels, exactly when that text is empty or matches the pattern.
C3_ChangeAcceptedIffSanitizedMatches ==
  changeText # None =>
    LET sanitized == RemoveAll(RemoveAll(changeText[1], SPACE), GHOST_CHARACTER)
    IN  changed = IF sanitized = <<>> \/ RegexpAccepts(pattern, sanitized)
                  THEN <<sanitized>>
                  ELSE <<>>

\* C4: the text passed to onChange holds no space and no sentinel.
C4_OnChangeTextHasNoSpaceNoSentinel ==
  changed # <<>> =>
    /\ ~Includes(changed[1], SPACE)
    /\ ~Includes(changed[1], GHOST_CHARACTER)

\* C5: the field shows the sentinel followed by the value, and removing the
\* sentinel from the field's text gives the value back.
C5_GhostRoundTrip ==
  mounted =>
    /\ inputValue = <<GHOST_CHARACTER>> \o value
    /\ removeGhostCharacter(inputValue) = value

\* C6: a copy writes the value less every sentinel and every space.
C6_CopyWritesStrippedValue ==
  lastOp = "copy" =>
    copied = <<RemoveAll(RemoveAll(value, GHOST_CHARACTER), SPACE)>>

\* C7: with allowNavigation, ref.select() leaves the mirrored selection at
\* <<0, length of the value>>.
C7_SelectMirrorsWholeValue ==
  (lastOp = "callSelect" /\ allowNavigation /\ Len(value) <= maxLength) =>
    /\ mirrorSelectionStart = Some(0)
    /\ mirrorSelectionEnd = Some(Len(value))

\* C8: while allowNavigation is false, ref.select() changes neither the native
\* selection, nor the mirrored selection, nor the value, nor the focus flag.
C8_SelectNoOpWhenNavigationDisabled ==
  [][(lastOp' = "callSelect" /\ ~allowNavigation') =>
       UNCHANGED <<selectionStart, selectionEnd, mirrorSelectionStart,
                   mirrorSelectionEnd, value, isFocused>>]_vars

\* ref.select() was called with navigation disabled after it had been enabled,
\* on a focused widget with a selection and a mirror.
C8_Witness ==
  /\ lastOp = "callSelect"
  /\ ~allowNavigation
  /\ Len(selectChain) >= 2
  /\ isFocused
  /\ selectionStart < selectionEnd
  /\ mirrorSelectionStart # None

\* C9: with navigation enabled and a non-empty value, once the deferred
\* updates of an Alt+ArrowLeft (Alt+ArrowRight) have run, slot 0 (the slot of
\* the last character) is the one active slot.
C9_AltArrowSelectsFirstOrLast ==
  (/\ keyPress \in {Some(AltLeft), Some(AltRight)}
   /\ pending = <<>>
   /\ allowNavigation
   /\ 1 <= Len(value) /\ Len(value) <= maxLength) =>
    ActiveSlots = {IF keyPress = Some(AltLeft) THEN 0 ELSE Len(value) - 1}

\* C10: with an empty value and navigation enabled, once the deferred updates
\* of a Home key-down have run, slot 0 is active.
C10_HomeOnEmptyActivatesSlot0 ==
  (/\ keyPress = Some(PlainHome)
   /\ pending = <<>>
   /\ allowNavigation
   /\ value = <<>>) =>
    isActive(0)

\* C11: while allowNavigation is false, a key-down of ArrowLeft, ArrowRight,
\* ArrowUp, ArrowDown, Home or End, with any modifiers and any selection, has
\* its default action prevented and leaves the native selection as it was.
C11_NavigationKeysBlocked ==
  [][(/\ lastOp' = "keydown"
      /\ ~allowNavigation
      /\ keyPress'[1].key \in {"ArrowLeft", "ArrowRight", "ArrowUp", "ArrowDown",
                               "Home", "End"}) =>
       /\ prevented'
       /\ UNCHANGED <<selectionStart, selectionEnd>>]_vars

\* Shift+Home was pressed over a selection with navigation disabled.
C11_Witness ==
  /\ lastOp = "keydown"
  /\ ~allowNavigation
  /\ keyPress = Some([key |-> "Home", mods |-> {"shift"}])
  /\ prevented
  /\ selectionStart < selectionEnd

\* C12: after a focus event on a value of length n in 0..maxLength the native
\* selection is the one character [n, n+1) of the field's text (the last
\* populated character when n >= 1, the last allowed position when the value is
\* full), and the mirrored selection designates the same position of the value.
C12_FocusSelectsOneCharacter ==
  (/\ lastOp = "focus"
   /\ Len(value) <= maxLength
   /\ inputValue = <<GHOST_CHARACTER>> \o value) =>
    /\ selectionEnd - selectionStart = 1
    /\ Len(value) >= 1 =>
         /\ <<selectionStart, selectionEnd>> = <<Len(value), Len(value) + 1>>
         /\ mirrorSelectionStart = Some(Len(value) - 1)
         /\ mirrorSelectionEnd = Some(Len(value))

\* C13: when a deferred select listener (of the current render) runs on a
\* non-empty value with a caret that is not at the append position, it leaves
\* a native selection exactly one character wide.
C13_CaretWidenedToOneCharacter ==
  [][(/\ lastOp' = "deferredSelect"
      /\ Head(pending) = SelectTask(value, maxLength)
      /\ Len(value) >= 1
      /\ Len(value) <= maxLength
      /\ inputValue = <<GHOST_CHARACTER>> \o value
      /\ selectionStart = selectionEnd
      /\ ~(Len(value) < maxLength /\ selectionStart \in {Len(value), Len(inputValue)})) =>
       selectionEnd' - selectionStart' = 1]_vars

\* C14: the deferred mirror update, the focus handler and the select override
\* leave each mirrored endpoint at the native endpoint minus one.
C14_MirrorIsNativeMinusOne ==
  (\/ lastOp \in {"deferredMirror", "focus"}
   \/ (lastOp = "callSelect" /\ allowNavigation)) =>
    /\ mirrorSelectionStart = Some(selectionStart - 1)
    /\ mirrorSelectionEnd = Some(selectionEnd - 1)

\* C15: with navigation enabled, a plain ArrowLeft over the one-character
\* selection [s, s+1) is prevented and selects [max(s-1, 0), max(s, 1)); an
\* ArrowLeft over any other selection, or with modifiers other than Alt
\* without Shift, is not prevented and the default action acts on the
\* selection as it was.
C15_PlainArrowLeftMovesWindow ==
  [][(/\ lastOp' = "keydown"
      /\ allowNavigation
      /\ keyPress'[1].key = "ArrowLeft") =>
       LET mods == keyPress'[1].mods
           s == selectionStart
           e == selectionEnd
       IN  IF mods = {} /\ e - s = 1
           THEN /\ prevented'
                /\ <<selectionStart', selectionEnd'>> = <<Max(s - 1, 0), Max(s, 1)>>
           ELSE IF "alt" \in mods /\ "shift" \notin mods
           THEN TRUE
           ELSE /\ ~prevented'
                /\ <<selectionStart', selectionEnd'>> =
                     DefaultAction("ArrowLeft", mods, inputValue, s, e)]_vars

\* A plain ArrowLeft has moved the one-character window to the start of the
\* field's text.
C15_Witness ==
  /\ lastOp = "keydown"
  /\ allowNavigation
  /\ keyPress = Some([key |-> "ArrowLeft", mods |-> {}])
  /\ prevented
  /\ <<selectionStart, selectionEnd>> = <<0, 1>>
  /\ Len(value) >= 1

\* C16: the key handler's classification fails exactly for a selection with
\* end < start, and the native selection never has end < start, so the error
\* is never raised.
C16_SelectionTypeErrorUnreachable ==
  /\ \A s \in 0..(MaxMaxLength + 1) : \A e \in 0..(MaxMaxLength + 1) :
       SelectionTypeOf(s, e) = "error" <=> e < s
  /\ selectionStart <= selectionEnd
  /\ SelectionTypeOf(selectionStart, selectionEnd) # "error"

\* A key-down was handled over a one-character selection.
C16_Witness ==
  /\ lastOp = "keydown"
  /\ keyPress = Some([key |-> "ArrowRight", mods |-> {"shift"}])
  /\ selectionEnd - selectionStart = 1
  /\ SelectionTypeOf(selectionStart, selectionEnd) = "CHAR"

\* C17: whenever allowNavigation is true, ref.select() selects the whole text
\* of the field, whatever allowNavigation was before.
C17_SelectReachesNativeSelect ==
  (lastOp = "callSelect" /\ allowNavigation) =>
    /\ selectionStart = 0
    /\ selectionEnd = Len(inputValue)

\* C18: a mirrored selection that is present has 0 <= start <= end <= maxLength.
C18_MirrorWithinValue ==
  (mounted /\ mirrorSelectionStart # None /\ mirrorSelectionEnd # None) =>
    /\ 0 <= mirrorSelectionStart[1]
    /\ mirrorSelectionStart[1] <= mirrorSelectionEnd[1]
    /\ mirrorSelectionEnd[1] <= maxLength

\* C19: at most one slot has the fake caret, and no slot is active while the
\* widget is not focused.
C19_AtMostOneFakeCaret ==
  mounted =>
    /\ Cardinality({i \in SlotIndexes : hasFakeCaret(i)}) <= 1
    /\ ~isFocused => ActiveSlots = {}

\* C20: a deferred select listener leaves the native selection that the
\* listener of the current render would leave on the same selection.
C20_DeferredSelectReadsCurrentValue ==
  [][lastOp' = "deferredSelect" =>
       <<selectionStart', selectionEnd'>> =
         SelectListenerSel(value, maxLength, inputValue, selectionStart,
                           selectionEnd)]_vars

====
